---- MODULE Spec2Model ----
(***************************************************************************)
(* A model of rustlog's log storage engine:                                *)
(*   - reindexer.rs: reindex_channel, which rebuilds the per-user index    *)
(*     files of every month from the channel-day files;                    *)
(*   - logs/schema.rs: Message::from_irc_message;                          *)
(*   - web/responders/logs.rs: ProcessedLogs::parse_raw.                   *)
(***************************************************************************)
EXTENDS Integers, Sequences, FiniteSets, TLC

(***************************************************************************)
(* Bounds of the model.                                                    *)
(***************************************************************************)
\* The number of lines of all the channel-day files together.
MaxTotalLines == 3

(***************************************************************************)
(* The data of the reindexer.                                              *)
(***************************************************************************)
\* The user ids that lines carry (Strings in the code).
UserIds == {"11", "22"}

\* app.get_user_id_by_name, when it answers: the user directory.
UserDirectory == [name \in {"alice"} |-> "11"]

\* The lines a channel-day file is made of.  A line is known by what the
\* reindexer makes of it when it stands alone in the line buffer:
\*   "id"     extract_channel_and_user gives UserIdentifier::UserId (or the
\*            basic extraction finds a user-id tag),
\*   "login"  extract_channel_and_user gives UserIdentifier::User,
\*   "none"   the message names no user,
\*   "bad"    IRCMessage::parse rejects the line;
\* len is the number of bytes of the line without its newline.
LineAlphabet ==
    { [kind |-> "id",    user |-> "11",    len |-> 3],
      [kind |-> "id",    user |-> "22",    len |-> 4],
      [kind |-> "login", user |-> "alice", len |-> 5],
      [kind |-> "none",  user |-> "",      len |-> 2],
      [kind |-> "bad",   user |-> "",      len |-> 1] }

\* available_logs of one channel and year: the months, each with its days.
AvailableLogs ==
    << [month |-> 1, days |-> <<1, 2>>],
       [month |-> 2, days |-> <<1>>] >>

Months == {AvailableLogs[i].month : i \in 1..Len(AvailableLogs)}

\* The channel-day files of available_logs, as <<month, day>>, in the order
\* reindex_channel visits them.
RECURSIVE DayKeysFrom(_)
DayKeysFrom(i) ==
    IF i > Len(AvailableLogs) THEN <<>>
    ELSE [j \in 1..Len(AvailableLogs[i].days) |->
             <<AvailableLogs[i].month, AvailableLogs[i].days[j]>>]
         \o DayKeysFrom(i + 1)

DayKeys == DayKeysFrom(1)

DayKeySet == {DayKeys[i] : i \in 1..Len(DayKeys)}

\* The newest channel-day file: the one a writer that was cut short (a crash
\* between a line and its newline) leaves without its last newline.
NewestDay == DayKeys[Len(DayKeys)]

\* Every assignment of line sequences to the given day files with at most
\* budget lines in all.
RECURSIVE FileMaps(_, _)
FileMaps(keys, budget) ==
    IF keys = <<>> THEN {[k \in {} |-> <<>>]}
    ELSE UNION { { (Head(keys) :> s) @@ rest :
                     s \in [1..n -> LineAlphabet],
                     rest \in FileMaps(Tail(keys), budget - n) } :
                 n \in 0..budget }

\* A users/ directory that does not exist, and an index directory without files.
NoIdx == [u \in {} |-> <<>>]
NoDir == [exists |-> FALSE, idx |-> NoIdx]

VARIABLES
    files,         \* <<month, day>> -> the lines of {day}.txt
    unterminated,  \* the day files whose last line has no newline
    users,         \* month -> the users/ directory: user id -> index records
    pc,            \* where reindex_channel stands
    err,           \* the error reindex_channel returned, "" when none
    mi,            \* the index of the month in AvailableLogs
    di,            \* the index of the day in the month's days
    pos,           \* the number of lines the reader has read of the day file
    line,          \* the line buffer: the lines read since it was last cleared
    user_writers,  \* user id -> the records its BufWriter holds, not yet flushed
    parsed,        \* the <<month, day, line number>> whose parse succeeded in this run
    prevIndex,     \* users as the last run that completed left it
    wpc,           \* where parse_raw stands
    batch,         \* parse_raw: the lines given
    results,       \* parse_raw: line number -> what filter_map's closure made of it
    finished,      \* parse_raw: the line numbers in the order their workers finished
    messages,      \* parse_raw: the collected messages
    irc_message,   \* from_irc_message: its argument
    parsed_message \* from_irc_message: Some(its result), None before the call

reindexVars == <<files, unterminated, users, pc, err, mi, di, pos, line,
                 user_writers, parsed, prevIndex>>
webVars == <<wpc, batch, results, finished, messages>>
schemaVars == <<irc_message, parsed_message>>
vars == <<reindexVars, webVars, schemaVars>>

\* prevIndex before any run completed: no month has a snapshot.
NoSnapshot == [m \in {} |-> NoDir]

(***************************************************************************)
(* The byte layout of a channel-day file.                                  *)
(***************************************************************************)
\* Whether line number i of the day file ends with a newline.
HasNewline(key, i) ==
    ~(key \in unterminated /\ i = Len(files[key]))

\* read_line's result for line number i: the bytes read, newline included.
ReadBytes(key, i) ==
    files[key][i].len + (IF HasNewline(key, i) THEN 1 ELSE 0)

\* The byte at which line number i + 1 begins: the size of the first i lines.
RECURSIVE LineStart(_, _)
LineStart(key, i) ==
    IF i = 0 THEN 0 ELSE LineStart(key, i - 1) + ReadBytes(key, i)

FileSize(key) == LineStart(key, Len(files[key]))

\* reader.stream_position() after n lines were read.
StreamPosition_Underlying(key, n) == FileSize(key)
StreamPosition(key, n) == LineStart(key, n)

(***************************************************************************)
(* reindex_channel.                                                        *)
(***************************************************************************)
CurMonth == AvailableLogs[mi].month
CurDays == AvailableLogs[mi].days
CurDay == CurDays[di]
CurKey == <<CurMonth, CurDay>>

\* IRCMessage::parse(line.trim_end()) on the line buffer.  The buffer holds
\* more than one line when it was not cleared; a newline then stands inside
\* the trimmed text, which the parser rejects.
IRCParseOk(buf) ==
    /\ Len(buf) = 1
    /\ buf[1].kind # "bad"

\* fs::remove_dir_all(&users_path).
RemoveDirAll_Keep(dir) == dir
RemoveDirAll(dir) == NoDir

\* The Entry::Vacant branch: create the users folder when it is missing and
\* open {user_id}.indexes with create(true).append(true).
OpenUserFile_Truncate(dir, u) ==
    [exists |-> TRUE, idx |-> (u :> <<>>) @@ dir.idx]
OpenUserFile(dir, u) ==
    [exists |-> TRUE,
     idx |-> IF u \in DOMAIN dir.idx THEN dir.idx ELSE (u :> <<>>) @@ dir.idx]

\* user_writer.write_all(&index.as_bytes()) into the BufWriter.  The writer
\* holds the records of the day until the flush: a day's records of one user
\* stay below the writer's capacity in the model.
WriteAll(buffered, index) == Append(buffered, index)

\* writer.flush() of every user writer of the day.
FlushAll(dir, writers) ==
    [dir EXCEPT !.idx = [u \in DOMAIN dir.idx |->
        IF u \in DOMAIN writers THEN dir.idx[u] \o writers[u] ELSE dir.idx[u]]]

\* What reindex_channel drops when it returns.
DropLocals ==
    /\ pos' = 0
    /\ line' = <<>>
    /\ user_writers' = NoIdx

\* reindex_channel returns Err(e).
Fail(e) ==
    /\ pc' = "failed"
    /\ err' = e
    /\ DropLocals
    /\ mi' = 1
    /\ di' = 1
    /\ parsed' = {}
    /\ UNCHANGED <<files, unterminated, users, prevIndex>>
    /\ UNCHANGED <<webVars, schemaVars>>

\* run: get_available_channel_logs fails; the error is logged and
\* reindex_channel is not called.
RunLogsUnavailable ==
    /\ pc \in {"idle", "done", "failed"}
    /\ pc' = "skipped"
    /\ err' = ""
    /\ UNCHANGED <<files, unterminated, users, mi, di, pos, line, user_writers,
                   parsed, prevIndex>>
    /\ UNCHANGED <<webVars, schemaVars>>

\* run: get_available_channel_logs answers and reindex_channel is called.
Reindex ==
    /\ pc \in {"idle", "done", "failed", "skipped"}
    /\ pc' = "month"
    /\ err' = ""
    /\ mi' = 1
    /\ di' = 1
    /\ parsed' = {}
    /\ prevIndex' = IF pc = "done" THEN users ELSE prevIndex
    /\ UNCHANGED <<files, unterminated, users, pos, line, user_writers>>
    /\ UNCHANGED <<webVars, schemaVars>>

\* The head of the month loop: clear the month's users/ directory.
ClearMonth ==
    /\ pc = "month"
    /\ mi <= Len(AvailableLogs)
    /\ users' = [users EXCEPT ![CurMonth] =
                    IF @.exists THEN RemoveDirAll(@) ELSE @]
    /\ pc' = "day"
    /\ di' = 1
    /\ UNCHANGED <<files, unterminated, err, mi, pos, line, user_writers,
                   parsed, prevIndex>>
    /\ UNCHANGED <<webVars, schemaVars>>

\* fs::remove_dir_all fails: .context("could not clear old indexes")?
ClearMonthFail ==
    /\ pc = "month"
    /\ mi <= Len(AvailableLogs)
    /\ users[CurMonth].exists
    /\ Fail("could not clear old indexes")

\* Every month is done: Ok(()).
Finish ==
    /\ pc = "month"
    /\ mi > Len(AvailableLogs)
    /\ pc' = "done"
    /\ mi' = 1
    /\ UNCHANGED <<files, unterminated, users, err, di, pos, line,
                   user_writers, parsed, prevIndex>>
    /\ UNCHANGED <<webVars, schemaVars>>

\* File::open of the day's channel file succeeds.
OpenDay ==
    /\ pc = "day"
    /\ di <= Len(CurDays)
    /\ pc' = "read"
    /\ pos' = 0
    /\ line' = <<>>
    /\ user_writers' = NoIdx
    /\ UNCHANGED <<files, unterminated, users, err, mi, di, parsed,
                   prevIndex>>
    /\ UNCHANGED <<webVars, schemaVars>>

\* File::open fails: .context("could not open channel file")?
OpenDayFail ==
    /\ pc = "day"
    /\ di <= Len(CurDays)
    /\ Fail("could not open channel file")

\* The days of the month are done.
NextMonth ==
    /\ pc = "day"
    /\ di > Len(CurDays)
    /\ pc' = "month"
    /\ mi' = mi + 1
    /\ di' = 1
    /\ UNCHANGED <<files, unterminated, users, err, pos, line, user_writers,
                   parsed, prevIndex>>
    /\ UNCHANGED <<webVars, schemaVars>>

\* read_line returns 0: break.
ReadEof ==
    /\ pc = "read"
    /\ pos = Len(files[CurKey])
    /\ pc' = "flush"
    /\ UNCHANGED <<files, unterminated, users, err, mi, di, pos, line,
                   user_writers, parsed, prevIndex>>
    /\ UNCHANGED <<webVars, schemaVars>>

\* reader.read_line(&mut line).await? fails.
ReadFail ==
    /\ pc = "read"
    /\ pos < Len(files[CurKey])
    /\ Fail("read")

\* The line buffer after read_line appended the next line to it.
NextBuf == Append(line, files[CurKey][pos + 1])

\* The parse fails: a warning, and the line buffer is left as it is.
ReadMalformed ==
    /\ pc = "read"
    /\ pos < Len(files[CurKey])
    /\ ~IRCParseOk(NextBuf)
    /\ pos' = pos + 1
    /\ line' = NextBuf
    /\ UNCHANGED <<files, unterminated, users, pc, err, mi, di, user_writers,
                   parsed, prevIndex>>
    /\ UNCHANGED <<webVars, schemaVars>>

\* The parse succeeds and the message names no user: it is skipped.
ReadSkipped ==
    /\ pc = "read"
    /\ pos < Len(files[CurKey])
    /\ IRCParseOk(NextBuf)
    /\ NextBuf[1].kind = "none"
    /\ pos' = pos + 1
    /\ line' = <<>>
    /\ parsed' = parsed \cup {<<CurMonth, CurDay, pos + 1>>}
    /\ UNCHANGED <<files, unterminated, users, pc, err, mi, di, user_writers,
                   prevIndex>>
    /\ UNCHANGED <<webVars, schemaVars>>

\* The index record of the line just read, written for user_id.
WriteIndex(user_id) ==
    LET index == [day    |-> CurDay,
                  offset |-> StreamPosition(CurKey, pos),
                  len    |-> ReadBytes(CurKey, pos + 1) - 1]
        vacant == user_id \notin DOMAIN user_writers
        writers == IF vacant THEN (user_id :> <<>>) @@ user_writers
                   ELSE user_writers
    IN  /\ users' = IF vacant
                    THEN [users EXCEPT ![CurMonth] = OpenUserFile(@, user_id)]
                    ELSE users
        /\ user_writers' = [writers EXCEPT ![user_id] = WriteAll(@, index)]

\* The parse succeeds and the message carries a user id.
ReadUserId ==
    /\ pc = "read"
    /\ pos < Len(files[CurKey])
    /\ IRCParseOk(NextBuf)
    /\ NextBuf[1].kind = "id"
    /\ WriteIndex(NextBuf[1].user)
    /\ pos' = pos + 1
    /\ line' = <<>>
    /\ parsed' = parsed \cup {<<CurMonth, CurDay, pos + 1>>}
    /\ UNCHANGED <<files, unterminated, pc, err, mi, di, prevIndex>>
    /\ UNCHANGED <<webVars, schemaVars>>

\* The parse succeeds, the message names its user by login, and
\* get_user_id_by_name answers.
ReadLogin ==
    /\ pc = "read"
    /\ pos < Len(files[CurKey])
    /\ IRCParseOk(NextBuf)
    /\ NextBuf[1].kind = "login"
    /\ WriteIndex(UserDirectory[NextBuf[1].user])
    /\ pos' = pos + 1
    /\ line' = <<>>
    /\ parsed' = parsed \cup {<<CurMonth, CurDay, pos + 1>>}
    /\ UNCHANGED <<files, unterminated, pc, err, mi, di, prevIndex>>
    /\ UNCHANGED <<webVars, schemaVars>>

\* The same, and get_user_id_by_name fails: app.get_user_id_by_name(name).await?
ReadLoginFail ==
    /\ pc = "read"
    /\ pos < Len(files[CurKey])
    /\ IRCParseOk(NextBuf)
    /\ NextBuf[1].kind = "login"
    /\ Fail("lookup")

\* The line is to be indexed under a user without a writer yet, and
\* create_dir_all or the open of the user file fails.
OpenUserFileFail ==
    /\ pc = "read"
    /\ pos < Len(files[CurKey])
    /\ IRCParseOk(NextBuf)
    /\ \/ NextBuf[1].kind = "id" /\ NextBuf[1].user \notin DOMAIN user_writers
       \/ /\ NextBuf[1].kind = "login"
          /\ UserDirectory[NextBuf[1].user] \notin DOMAIN user_writers
    /\ Fail("io")

\* try_join_all of the writers' flushes, then the next day.
FlushDay ==
    /\ pc = "flush"
    /\ users' = [users EXCEPT ![CurMonth] = FlushAll(@, user_writers)]
    /\ user_writers' = NoIdx
    /\ pos' = 0
    /\ line' = <<>>
    /\ pc' = "day"
    /\ di' = di + 1
    /\ UNCHANGED <<files, unterminated, err, mi, parsed, prevIndex>>
    /\ UNCHANGED <<webVars, schemaVars>>

Next ==
    \/ RunLogsUnavailable
    \/ Reindex
    \/ ClearMonth
    \/ ClearMonthFail
    \/ Finish
    \/ OpenDay
    \/ OpenDayFail
    \/ NextMonth
    \/ ReadEof
    \/ ReadFail
    \/ ReadMalformed
    \/ ReadSkipped
    \/ ReadUserId
    \/ ReadLogin
    \/ ReadLoginFail
    \/ OpenUserFileFail
    \/ FlushDay

(***************************************************************************)
(* logs/schema.rs: Message::from_irc_message.                              *)
(***************************************************************************)
\* Option<T>: None, and Some(v).
None == <<>>
Some(v) == <<v>>
IsSome(o) == o # <<>>
Unwrap(o) == o[1]

\* The stand-in for the character U+0001 in the texts of the model.
SOH == "~"

StartsWith(s, prefix) ==
    Len(s) >= Len(prefix) /\ SubSeq(s, 1, Len(prefix)) = prefix

EndsWith(s, suffix) ==
    Len(s) >= Len(suffix) /\ SubSeq(s, Len(s) - Len(suffix) + 1, Len(s)) = suffix

\* str::trim_start, for the blanks of the model's texts.
RECURSIVE TrimStart(_)
TrimStart(s) ==
    IF StartsWith(s, " ") THEN TrimStart(Tail(s)) ELSE s

\* extract_message_text.
extract_message_text(message_text) ==
    LET trimmed == TrimStart(message_text)
        stripped == IF StartsWith(trimmed, ":") THEN Tail(trimmed) ELSE trimmed
        is_action == StartsWith(stripped, SOH \o "ACTION ") /\ EndsWith(stripped, SOH)
    IN  IF is_action THEN SubSeq(stripped, 9, Len(stripped) - 1) ELSE stripped

\* twitch::unescape of a tag value.
RECURSIVE unescape(_)
unescape(s) ==
    IF s = "" THEN ""
    ELSE IF StartsWith(s, "\\") /\ Len(s) >= 2
         THEN LET c == SubSeq(s, 2, 2)
                  rest == unescape(SubSeq(s, 3, Len(s)))
              IN  CASE c = "s" -> " " \o rest
                    [] c = ":" -> ";" \o rest
                    [] c = "\\" -> "\\" \o rest
                    [] OTHER -> c \o rest
         ELSE SubSeq(s, 1, 1) \o unescape(Tail(s))

Digits == <<"0", "1", "2", "3", "4", "5", "6", "7", "8", "9">>

IsDigit(c) == \E d \in 1..Len(Digits) : Digits[d] = c

DigitValue(c) == (CHOOSE d \in 1..Len(Digits) : Digits[d] = c) - 1

RECURSIVE AllDigits(_)
AllDigits(s) ==
    s = "" \/ (IsDigit(SubSeq(s, 1, 1)) /\ AllDigits(Tail(s)))

RECURSIVE DigitsValue(_, _)
DigitsValue(s, acc) ==
    IF s = "" THEN acc
    ELSE DigitsValue(Tail(s), acc * 10 + DigitValue(SubSeq(s, 1, 1)))

\* str::parse::<i64>, for numbers that fit.
ParseI64(s) ==
    LET signed == StartsWith(s, "-") \/ StartsWith(s, "+")
        digits == IF signed THEN Tail(s) ELSE s
    IN  IF digits = "" \/ ~AllDigits(digits) THEN None
        ELSE Some(IF StartsWith(s, "-") THEN 0 - DigitsValue(digits, 0)
                  ELSE DigitsValue(digits, 0))

\* tags.get(&tag).
TagGet(tags, tag) ==
    IF tag \in DOMAIN tags THEN Some(tags[tag]) ELSE None

Ok(v) == [ok |-> TRUE, value |-> v]
Err(e) == [ok |-> FALSE, error |-> e]

\* The Command::Privmsg arm.
FromPrivmsg(m, tags, channel, timestamp) ==
    IF ~IsSome(m.params) THEN Err("Privmsg has no params")
    ELSE IF ~IsSome(TagGet(tags, "display-name")) THEN Err("Missing display name tag")
    ELSE IF ~IsSome(m.prefix) THEN Err("Message has no prefix")
    ELSE IF ~IsSome(Unwrap(m.prefix).nick) THEN Err("Missing nickname")
    ELSE IF ~IsSome(TagGet(tags, "id")) THEN Err("Missing message id tag")
    ELSE Ok([text         |-> extract_message_text(Unwrap(m.params)),
             username     |-> Unwrap(Unwrap(m.prefix).nick),
             display_name |-> tags["display-name"],
             channel      |-> channel,
             timestamp    |-> timestamp,
             id           |-> tags["id"],
             raw          |-> m.raw,
             type         |-> "PrivMsg",
             tags         |-> tags])

\* The text of a CLEARCHAT message.
ClearchatText_NoDuration(params, ban_duration) ==
    IF IsSome(params) THEN Unwrap(params) \o " has been banned"
    ELSE "Chat has been cleared"
ClearchatText(params, ban_duration) ==
    IF IsSome(params)
    THEN IF IsSome(ban_duration)
         THEN Unwrap(params) \o " has been timed out for "
                  \o Unwrap(ban_duration) \o " seconds"
         ELSE Unwrap(params) \o " has been banned"
    ELSE "Chat has been cleared"

\* The Command::Clearchat arm.
FromClearchat(m, tags, channel, timestamp) ==
    LET username == m.params
    IN  Ok([text         |-> ClearchatText(m.params, TagGet(tags, "ban-duration")),
            username     |-> IF IsSome(username) THEN Unwrap(username) ELSE "",
            display_name |-> IF IsSome(username) THEN Unwrap(username) ELSE "",
            channel      |-> channel,
            timestamp    |-> timestamp,
            id           |-> "",
            raw          |-> m.raw,
            type         |-> "ClearChat",
            tags         |-> tags])

\* The Command::UserNotice arm.
FromUserNotice(m, tags, channel, timestamp) ==
    IF ~IsSome(TagGet(tags, "system-msg")) THEN Err("System message tag missing")
    ELSE IF ~IsSome(TagGet(tags, "display-name")) THEN Err("Missing display name tag")
    ELSE IF ~IsSome(TagGet(tags, "login")) THEN Err("Missing login tag")
    ELSE IF ~IsSome(TagGet(tags, "id")) THEN Err("Missing message id tag")
    ELSE LET system_message == unescape(tags["system-msg"])
         IN  Ok([text         |-> IF IsSome(m.params)
                                  THEN system_message \o " "
                                           \o extract_message_text(Unwrap(m.params))
                                  ELSE system_message,
                 username     |-> tags["login"],
                 display_name |-> tags["display-name"],
                 channel      |-> channel,
                 timestamp    |-> timestamp,
                 id           |-> tags["id"],
                 raw          |-> m.raw,
                 type         |-> "UserNotice",
                 tags         |-> [t \in DOMAIN tags |-> unescape(tags[t])]])

\* Message::from_irc_message.
from_irc_message(m) ==
    IF ~IsSome(m.tags) THEN Err("Message has no tags")
    ELSE IF ~IsSome(m.channel) THEN Err("Missing channel")
    ELSE LET tags == Unwrap(m.tags)
             channel == Unwrap(m.channel)
         IN  IF ~IsSome(TagGet(tags, "tmi-sent-ts")) THEN Err("Missing timestamp tag")
             ELSE IF ~IsSome(ParseI64(tags["tmi-sent-ts"])) THEN Err("Invalid timestamp")
             ELSE LET timestamp == Unwrap(ParseI64(tags["tmi-sent-ts"]))
                  IN  CASE m.command = "PRIVMSG" ->
                               FromPrivmsg(m, tags, channel, timestamp)
                        [] m.command = "CLEARCHAT" ->
                               FromClearchat(m, tags, channel, timestamp)
                        [] m.command = "USERNOTICE" ->
                               FromUserNotice(m, tags, channel, timestamp)
                        [] OTHER -> Err("Unsupported message type")

\* The tags of the model's messages: the timestamp tag, the ban duration, and
\* the tags of a message a user sent, each there or not.
TagMaps ==
    { ts @@ ban @@ sent :
        ts \in {NoIdx, "tmi-sent-ts" :> "1000", "tmi-sent-ts" :> "soon"},
        ban \in {NoIdx, "ban-duration" :> "600", "ban-duration" :> "1"},
        sent \in {NoIdx,
                  ("display-name" :> "Ronni") @@ ("id" :> "abc")
                      @@ ("login" :> "ronni") @@ ("system-msg" :> "Sub\\saward!")} }

\* The messages from_irc_message is given in the model.
IrcMessages ==
    { [command |-> c, channel |-> ch, params |-> p, tags |-> t,
       prefix |-> pre, raw |-> "raw"] :
        c \in {"PRIVMSG", "CLEARCHAT", "USERNOTICE", "PING"},
        ch \in {None, Some("#dallas")},
        pre \in {None, Some([nick |-> None]), Some([nick |-> Some("ronni")])},
        p \in {None, Some("ronni"), Some(":ronni"),
               Some(" :" \o SOH \o "ACTION waves" \o SOH)},
        t \in {None} \cup {Some(tags) : tags \in TagMaps} }

SchemaIdle ==
    /\ irc_message = <<>>
    /\ parsed_message = <<>>

\* A caller calls Message::from_irc_message(&irc_message).
FromIrcMessage ==
    /\ parsed_message = None
    /\ parsed_message' = Some(from_irc_message(irc_message))
    /\ UNCHANGED irc_message
    /\ UNCHANGED <<reindexVars, webVars>>

(***************************************************************************)
(* web/responders/logs.rs: ProcessedLogs::parse_raw.                       *)
(***************************************************************************)
\* The number of lines of a batch.
MaxBatch == 3

\* A raw line that is no chat-protocol message.
MalformedLine == [malformed |-> TRUE, raw |-> "garbage"]

WebTags ==
    ("tmi-sent-ts" :> "1000") @@ ("display-name" :> "Ronni") @@ ("id" :> "abc")
        @@ ("login" :> "ronni") @@ ("system-msg" :> "Sub\\saward!")

WebLine(c, p, t, r) ==
    [malformed |-> FALSE, command |-> c, channel |-> Some("#dallas"), params |-> p,
     tags |-> Some(t), prefix |-> Some([nick |-> Some("ronni")]), raw |-> r]

\* The lines of the model's batches.
WebLines ==
    { WebLine("PRIVMSG", Some(":hi"), WebTags, "raw1"),
      WebLine("PRIVMSG", Some(":" \o SOH \o "ACTION waves" \o SOH), WebTags, "raw2"),
      WebLine("CLEARCHAT", Some("ronni"), WebTags @@ ("ban-duration" :> "600"), "raw3"),
      WebLine("USERNOTICE", Some(":thanks"), WebTags, "raw4"),
      WebLine("PING", None, WebTags, "raw5"),
      MalformedLine }

\* Message::parse_from_raw_irc.
parse_from_raw_irc(l) ==
    IF l.malformed THEN Err("could not parse the line") ELSE from_irc_message(l)

\* The closure of filter_map.
FilterMapLine(l) ==
    LET r == parse_from_raw_irc(l)
    IN  IF r.ok THEN Some(r.value) ELSE None

\* collect(): the items the workers kept, in the order of the input.
RECURSIVE CollectInOrder(_, _)
CollectInOrder(res, order) ==
    IF order = <<>> THEN <<>>
    ELSE res[Head(order)] \o CollectInOrder(res, Tail(order))

Collect_AsFinished(res, done) == CollectInOrder(res, done)
Collect(res, done) == CollectInOrder(res, [i \in 1..Len(done) |-> i])

\* A worker takes a line no worker has taken and runs the closure on it.
Worker ==
    /\ wpc = "parsing"
    /\ \E i \in (1..Len(batch)) \ DOMAIN results :
          /\ results' = (i :> FilterMapLine(batch[i])) @@ results
          /\ finished' = Append(finished, i)
    /\ UNCHANGED <<wpc, batch, messages>>
    /\ UNCHANGED <<reindexVars, schemaVars>>

\* Every line was taken: collect.
CollectMessages ==
    /\ wpc = "parsing"
    /\ DOMAIN results = 1..Len(batch)
    /\ messages' = Collect(results, finished)
    /\ wpc' = "collected"
    /\ UNCHANGED <<batch, results, finished>>
    /\ UNCHANGED <<reindexVars, schemaVars>>

WebIdle ==
    /\ wpc = "off"
    /\ batch = <<>>
    /\ results = <<>>
    /\ finished = <<>>
    /\ messages = <<>>

Init ==
    /\ files \in FileMaps(DayKeys, MaxTotalLines)
    /\ unterminated \in {{}} \cup {{k} : k \in {NewestDay}}
    /\ \A k \in unterminated : files[k] # <<>>
    /\ users = [m \in Months |-> NoDir]
    /\ pc = "idle"
    /\ err = ""
    /\ mi = 1
    /\ di = 1
    /\ pos = 0
    /\ line = <<>>
    /\ user_writers = NoIdx
    /\ parsed = {}
    /\ prevIndex = NoSnapshot
    /\ WebIdle
    /\ SchemaIdle

Spec == Init /\ [][Next]_vars

ReindexIdle ==
    /\ files = [k \in DayKeySet |-> <<>>]
    /\ unterminated = {}
    /\ users = [m \in Months |-> NoDir]
    /\ pc = "off"
    /\ err = ""
    /\ mi = 1
    /\ di = 1
    /\ pos = 0
    /\ line = <<>>
    /\ user_writers = NoIdx
    /\ parsed = {}
    /\ prevIndex = NoSnapshot

\* parse_raw is called with a batch of lines.
InitWeb ==
    /\ ReindexIdle
    /\ SchemaIdle
    /\ wpc = "parsing"
    /\ batch \in UNION {[1..n -> WebLines] : n \in 0..MaxBatch}
    /\ results = NoIdx
    /\ finished = <<>>
    /\ messages = <<>>

NextWeb ==
    \/ Worker
    \/ CollectMessages

SpecWeb == InitWeb /\ [][NextWeb]_vars

\* from_irc_message is about to be called with a message.
InitSchema ==
    /\ ReindexIdle
    /\ WebIdle
    /\ irc_message \in IrcMessages
    /\ parsed_message = None

NextSchema == FromIrcMessage

SpecSchema == InitSchema /\ [][NextSchema]_vars

(***************************************************************************)
(* What the claims speak of.                                               *)
(***************************************************************************)
Range(f) == {f[i] : i \in DOMAIN f}

\* The records of users/{u}.indexes of the month, <<>> when there is no file.
IndexOf(m, u) ==
    IF u \in DOMAIN users[m].idx THEN users[m].idx[u] ELSE <<>>

\* The user id a well-formed line is indexed under, "" when it names no user.
DerivedUser(l) ==
    CASE l.kind = "id" -> l.user
      [] l.kind = "login" -> UserDirectory[l.user]
      [] OTHER -> ""

\* A malformed line stands in the middle of the day file.
MalformedInMiddle(key) ==
    \E j \in 2..(Len(files[key]) - 1) : files[key][j].kind = "bad"

\* Record r of a month's index is line number i of the day file, whole.
IsLine(m, r, i) ==
    LET key == <<m, r.day>>
    IN  /\ key \in DayKeySet
        /\ i \in 1..Len(files[key])
        /\ r.offset = LineStart(key, i - 1)
        /\ r.len = files[key][i].len

\* C1: after reindex_channel scanned a day file with a malformed line in the
\* middle, the malformed line has no index record, and every well-formed
\* line that carries a user id, before and after it, has a record at its
\* starting byte with its byte length.  (Stated for files whose lines all end
\* with a newline.)
C1_MalformedLineSkippedOthersIndexed ==
    pc = "done" =>
        \A key \in DayKeySet :
            (MalformedInMiddle(key) /\ key \notin unterminated) =>
                \A i \in 1..Len(files[key]) :
                    LET l == files[key][i]
                    IN  /\ l.kind = "bad" =>
                            \A u \in UserIds : \A r \in Range(IndexOf(key[1], u)) :
                                ~(r.day = key[2] /\ r.offset = LineStart(key, i - 1))
                        /\ l.kind = "id" =>
                            \E r \in Range(IndexOf(key[1], l.user)) :
                                r.day = key[2] /\ IsLine(key[1], r, i)

\* C2: a failure of one day (its file cannot be opened or read) does not
\* abort the reindex: reindex_channel never returns that error.
C2_DayFailureDoesNotAbort ==
    ~(pc = "failed" /\ err \in {"could not open channel file", "read"})

\* C3: a run that completes after a run that completed leaves every index
\* file as the earlier run left it.
C3_Idempotent ==
    (pc = "done" /\ prevIndex # NoSnapshot) => users = prevIndex

C3_Witness ==
    /\ pc = "done"
    /\ prevIndex # NoSnapshot
    /\ \E m \in Months : \E u \in UserIds : Len(IndexOf(m, u)) >= 2

\* C4: after reindex_channel completed, every record of every index file is
\* one whole line of its day file: it begins where the line begins, its
\* length is the line's bytes without the newline, the last line included.
C4_RecordIsWholeLine ==
    pc = "done" =>
        \A m \in Months : \A u \in UserIds : \A r \in Range(IndexOf(m, u)) :
            /\ <<m, r.day>> \in DayKeySet
            /\ r.offset + r.len <= FileSize(<<m, r.day>>)
            /\ \E i \in 1..Len(files[<<m, r.day>>]) : IsLine(m, r, i)

\* The <<day, offset>> of the lines of the month's day files from day number
\* j on that parsed and are indexed under u, in the order of the scan.
RECURSIVE ExpectedFrom(_, _, _)
ExpectedFrom(a, j, u) ==
    IF j > Len(AvailableLogs[a].days) THEN <<>>
    ELSE LET m == AvailableLogs[a].month
             d == AvailableLogs[a].days[j]
             hit(i) == /\ <<m, d, i>> \in parsed
                       /\ DerivedUser(files[<<m, d>>][i]) = u
             nums == SelectSeq([i \in 1..Len(files[<<m, d>>]) |-> i], hit)
         IN  [n \in 1..Len(nums) |-> <<d, LineStart(<<m, d>>, nums[n] - 1)>>]
             \o ExpectedFrom(a, j + 1, u)

\* C5: after reindex_channel completed, each user's index file of a month
\* holds exactly one record for every line of every day of the month that
\* parsed and is indexed under that user, those of earlier days included;
\* a line that names no user has no record, and a user without lines has
\* no file.
C5_EveryDayKept ==
    pc = "done" =>
        \A a \in 1..Len(AvailableLogs) : \A u \in UserIds :
            LET m == AvailableLogs[a].month
                idx == IndexOf(m, u)
            IN  /\ [n \in 1..Len(idx) |-> <<idx[n].day, idx[n].offset>>]
                       = ExpectedFrom(a, 1, u)
                /\ (u \in DOMAIN users[m].idx) <=> (ExpectedFrom(a, 1, u) # <<>>)

C5_Witness ==
    /\ pc = "done"
    /\ \E u \in UserIds :
          /\ \E r \in Range(IndexOf(1, u)) : r.day = 1
          /\ \E r \in Range(IndexOf(1, u)) : r.day = 2
    /\ \E k \in DayKeySet : \E i \in 1..Len(files[k]) :
          /\ files[k][i].kind = "none"
          /\ <<k[1], k[2], i>> \in parsed

\* C6: in every index file the records of one day are contiguous, and of two
\* records of one day the later has the greater offset.
C6_InsertionOrder ==
    \A m \in Months : \A u \in UserIds :
        LET idx == IndexOf(m, u)
        IN  \A i \in 1..Len(idx) : \A j \in (i + 1)..Len(idx) :
                idx[i].day = idx[j].day =>
                    /\ idx[i].offset < idx[j].offset
                    /\ \A k \in i..j : idx[k].day = idx[i].day

C6_Witness ==
    \E m \in Months : \E u \in UserIds :
        LET idx == IndexOf(m, u)
        IN  /\ Len(idx) = 3
            /\ idx[1].day = idx[2].day
            /\ idx[3].day # idx[1].day

\* C7: when get_user_id_by_name fails for a line that names its user by
\* login only, the line gets no record and the reindex goes on: it never
\* returns that error.  A line that carries a user id has its record.
C7_LookupFailureDoesNotAbort ==
    /\ ~(pc = "failed" /\ err = "lookup")
    /\ pc = "done" =>
          \A k \in DayKeySet : \A i \in 1..Len(files[k]) :
              (files[k][i].kind = "id" /\ <<k[1], k[2], i>> \in parsed) =>
                  \E r \in Range(IndexOf(k[1], files[k][i].user)) :
                      r.day = k[2] /\ r.offset = LineStart(k, i - 1)

\* C10: a month's index is replaced atomically: once a run has completed,
\* the users/ directories hold the complete index at every later point, also
\* while a later run is under way or after it stopped on an error.
C10_AtomicReplacement ==
    prevIndex # NoSnapshot => users = prevIndex

\* The messages parse_raw is to return: the parses of the lines that parse,
\* in the order of the lines.
RECURSIVE ParsesInOrder(_)
ParsesInOrder(lines) ==
    IF lines = <<>> THEN <<>>
    ELSE (IF parse_from_raw_irc(Head(lines)).ok
          THEN <<parse_from_raw_irc(Head(lines)).value>> ELSE <<>>)
         \o ParsesInOrder(Tail(lines))

\* C8: whatever the order in which the workers finish, parse_raw returns the
\* parses of the lines that parse, in the order of the lines; a line that
\* does not parse is dropped and the others keep their places.
C8_ParseRawKeepsOrder ==
    wpc = "collected" => messages = ParsesInOrder(batch)

C8_Witness ==
    /\ wpc = "collected"
    /\ Len(batch) = 3
    /\ batch[2] = MalformedLine
    /\ batch[1] # batch[3]
    /\ finished = <<3, 2, 1>>
    /\ Len(messages) = 2

\* C9: the text of a parsed CLEARCHAT message is "Chat has been cleared"
\* without a target, "{login} has been timed out for {duration} seconds" with
\* a target and a ban-duration tag, "{login} has been banned" with a target
\* and no such tag; username and display_name are the target login, or both
\* empty without a target, and id is empty.
C9_ClearchatText ==
    (/\ IsSome(parsed_message)
     /\ irc_message.command = "CLEARCHAT"
     /\ Unwrap(parsed_message).ok) =>
        LET msg == Unwrap(parsed_message).value
            tags == Unwrap(irc_message.tags)
            target == irc_message.params
        IN  /\ msg.id = ""
            /\ ~IsSome(target) =>
                  /\ msg.text = "Chat has been cleared"
                  /\ msg.username = ""
                  /\ msg.display_name = ""
            /\ IsSome(target) =>
                  /\ msg.username = Unwrap(target)
                  /\ msg.display_name = Unwrap(target)
                  /\ "ban-duration" \in DOMAIN tags =>
                        msg.text = Unwrap(target) \o " has been timed out for "
                                       \o tags["ban-duration"] \o " seconds"
                  /\ "ban-duration" \notin DOMAIN tags =>
                        msg.text = Unwrap(target) \o " has been banned"

C9_Witness ==
    /\ IsSome(parsed_message)
    /\ irc_message.command = "CLEARCHAT"
    /\ Unwrap(parsed_message).ok
    /\ Unwrap(parsed_message).value.text = "ronni has been timed out for 600 seconds"

====
